---- MODULE Spec2Model ----
(***************************************************************************)
(* Model of crates/rpc-types/src/eth/fee.rs: the eth_feeHistory response   *)
(* type FeeHistory (accessors and JSON wire format) and the reward         *)
(* comparator TxGasAndReward.                                              *)
(*                                                                         *)
(* Three specifications share the variables:                               *)
(*   Spec       the four accessors called on an arbitrary FeeHistory       *)
(*   SpecSerde  serialize / deserialize of FeeHistory                      *)
(*   SpecOrd    cmp / partial_cmp / == of TxGasAndReward and a sort by cmp *)
(***************************************************************************)
EXTENDS Integers, Sequences, FiniteSets, TLC

VARIABLES fh, ret, pc, wire, out, txs, ord, sorted

vars == <<fh, ret, pc, wire, out, txs, ord, sorted>>

(***************************************************************************)
(* Bounds                                                                  *)
(***************************************************************************)
\* longest base_fee_per_gas / base_fee_per_blob_gas given to the accessors
MaxLen == 3
\* accessor fee values are 0..MaxFee
MaxFee == 2
\* number of blocks in a serialized history
MaxBlocks == 1
\* longest sequence of TxGasAndReward that is compared and sorted
MaxTxs == 3
\* reward ranges over 0..MaxReward
MaxReward == 2

(***************************************************************************)
(* Option<T>: None is the empty sequence, Some(x) the one-element sequence *)
(***************************************************************************)
None == <<>>
Some(x) == <<x>>
IsSome(o) == Len(o) = 1
Unwrap(o) == o[1]

SeqsUpTo(S, n) == UNION {[1..k -> S] : k \in 0..n}

(***************************************************************************)
(* Iterator adaptors used by the accessors                                 *)
(***************************************************************************)
\* slice.iter().rev()
Rev(s) == [i \in 1..Len(s) |-> s[Len(s) + 1 - i]]

\* Iterator::nth(k): the k-th element counted from zero, None past the end
Nth(s, k) == IF k + 1 <= Len(s) THEN Some(s[k + 1]) ELSE None

\* slice.last()
Last(s) == IF Len(s) = 0 THEN None ELSE Some(s[Len(s)])

\* Option::filter(|fee| **fee != 0)
FilterNonZero(o) == IF IsSome(o) /\ Unwrap(o) # 0 THEN o ELSE None

(***************************************************************************)
(* FeeHistory accessors                                                    *)
(***************************************************************************)
latest_block_base_fee_off(self) == Nth(Rev(self.base_fee_per_gas), 0)
latest_block_base_fee(self) == Nth(Rev(self.base_fee_per_gas), 1)

next_block_base_fee_filtered(self) == FilterNonZero(Last(self.base_fee_per_gas))
next_block_base_fee(self) == Last(self.base_fee_per_gas)

next_block_blob_base_fee_unfiltered(self) == Last(self.base_fee_per_blob_gas)
next_block_blob_base_fee(self) == FilterNonZero(Last(self.base_fee_per_blob_gas))

latest_block_blob_base_fee_unfiltered(self) == Nth(Rev(self.base_fee_per_blob_gas), 1)
latest_block_blob_base_fee(self) ==
    FilterNonZero(Nth(Rev(self.base_fee_per_blob_gas), 1))

(***************************************************************************)
(* JSON values: strings are sequences of characters, numbers carry their   *)
(* decimal text, objects are sequences of key/value entries in the order   *)
(* they are written.                                                       *)
(***************************************************************************)
JNull == [t |-> "null"]
JStr(chars) == [t |-> "str", s |-> chars]
JNum(text) == [t |-> "num", text |-> text]
JArr(items) == [t |-> "arr", a |-> items]
Entry(k, v) == [k |-> k, v |-> v]

\* Result<T, E>
Ok(v) == <<"Ok", v>>
Err(e) == <<"Err", e>>
IsOk(r) == Len(r) = 2 /\ r[1] = "Ok"
IsErr(r) == Len(r) = 2 /\ r[1] = "Err"

(***************************************************************************)
(* f64: a finite value is named by the shortest decimal that denotes it;   *)
(* 0.9920321333333333 is 29760964/30000000 (bits 0x3fefbeba2c27edcc) and   *)
(* 0.9920321333333332 the float one ulp below it                           *)
(***************************************************************************)
F64 == {"0.0", "0.5", "0.9920321333333333", "NaN", "inf"}
IsFinite(f) == f \notin {"NaN", "inf"}

\* f64's PartialEq: NaN is equal to nothing, itself included
F64Eq(x, y) == x # "NaN" /\ y # "NaN" /\ x = y

\* Vec<f64>'s PartialEq: same length, element-wise f64 equality
VecF64Eq(x, y) == Len(x) = Len(y) /\ \A i \in 1..Len(x) : F64Eq(x[i], y[i])

\* #[derive(PartialEq)] on FeeHistory: every field equal
FeeHistoryEq(x, y) ==
    /\ x.base_fee_per_gas = y.base_fee_per_gas
    /\ VecF64Eq(x.gas_used_ratio, y.gas_used_ratio)
    /\ x.base_fee_per_blob_gas = y.base_fee_per_blob_gas
    /\ VecF64Eq(x.blob_gas_used_ratio, y.blob_gas_used_ratio)
    /\ x.oldest_block = y.oldest_block
    /\ x.reward = y.reward

(***************************************************************************)
(* Hexadecimal quantity codec: "0x" followed by the digits, no leading     *)
(* zeros, zero written "0x0"                                               *)
(***************************************************************************)
HexChars == <<"0", "1", "2", "3", "4", "5", "6", "7",
              "8", "9", "a", "b", "c", "d", "e", "f">>
HexCharSet == {HexChars[i] : i \in 1..16}
HexVal(c) == (CHOOSE i \in 1..16 : HexChars[i] = c) - 1

RECURSIVE HexDigits(_)
HexDigits(n) ==
    IF n < 16 THEN <<HexChars[n + 1]>>
    ELSE HexDigits(n \div 16) \o <<HexChars[(n % 16) + 1]>>

ToHex(n) == <<"0", "x">> \o HexDigits(n)

RECURSIVE HexValue(_)
HexValue(ds) ==
    IF Len(ds) = 0 THEN 0
    ELSE 16 * HexValue(SubSeq(ds, 1, Len(ds) - 1)) + HexVal(ds[Len(ds)])

\* Some(n) for a well-formed quantity, None otherwise
FromHex(s) ==
    IF /\ Len(s) >= 3
       /\ s[1] = "0"
       /\ s[2] = "x"
       /\ \A i \in 3..Len(s) : s[i] \in HexCharSet
    THEN Some(HexValue(SubSeq(s, 3, Len(s))))
    ELSE None

\* alloy_serde::num::u64_via_ruint
u64_via_ruint_serialize(n) == JStr(ToHex(n))
u64_via_ruint_deserialize(j) == IF j.t = "str" THEN FromHex(j.s) ELSE None

\* alloy_serde::num::u128_vec_via_ruint
u128_vec_via_ruint_serialize(v) ==
    JArr([i \in 1..Len(v) |-> JStr(ToHex(v[i]))])
u128_vec_via_ruint_deserialize(j) ==
    IF j.t # "arr" THEN None
    ELSE IF \E i \in 1..Len(j.a) :
                j.a[i].t # "str" \/ ~IsSome(FromHex(j.a[i].s))
    THEN None
    ELSE Some([i \in 1..Len(j.a) |-> Unwrap(FromHex(j.a[i].s))])

\* alloy_serde::num::u128_vec_vec_opt_via_ruint
u128_vec_vec_opt_via_ruint_serialize(o) ==
    IF IsSome(o)
    THEN JArr([i \in 1..Len(Unwrap(o)) |->
                  u128_vec_via_ruint_serialize(Unwrap(o)[i])])
    ELSE JNull
u128_vec_vec_opt_via_ruint_deserialize(j) ==
    IF j.t = "null" THEN Some(None)
    ELSE IF j.t # "arr" THEN None
    ELSE IF \E i \in 1..Len(j.a) :
                ~IsSome(u128_vec_via_ruint_deserialize(j.a[i]))
    THEN None
    ELSE Some(Some([i \in 1..Len(j.a) |->
                       Unwrap(u128_vec_via_ruint_deserialize(j.a[i]))]))

\* serde_json writing an f64: the shortest decimal that denotes it, which
\* is its name; null for NaN and the infinities
WriteF64(f) == IF IsFinite(f) THEN JNum(f) ELSE JNull

\* serde_json reading a number as f64, without its float_roundtrip feature:
\* an integer is converted, 0.0 and 0.5 are read exactly, some decimals are
\* read as a neighbouring float, a number too large for f64 is out of range
ReadF64(text) ==
    CASE text = "0" -> Some("0.0")
      [] text = "0.0" -> Some("0.0")
      [] text = "0.5" -> Some("0.5")
      [] text = "0.9920321333333333" -> Some("0.9920321333333332")
      [] text = "0.20597603333333334" -> Some("0.20597603333333336")
      [] text = "1e999" -> None

\* Vec<f64> as JSON: an array of numbers; null does not read as a float
vec_f64_serialize(v) == JArr([i \in 1..Len(v) |-> WriteF64(v[i])])
vec_f64_deserialize(j) ==
    IF j.t # "arr" THEN None
    ELSE IF \E i \in 1..Len(j.a) :
                j.a[i].t # "num" \/ ~IsSome(ReadF64(j.a[i].text))
    THEN None
    ELSE Some([i \in 1..Len(j.a) |-> Unwrap(ReadF64(j.a[i].text))])

(***************************************************************************)
(* #[derive(Serialize, Deserialize)] #[serde(rename_all = "camelCase")]    *)
(***************************************************************************)
\* the wire names of the six fields, in declaration order
Keys == {"baseFeePerGas", "gasUsedRatio", "baseFeePerBlobGas",
         "blobGasUsedRatio", "oldestBlock", "reward"}

\* an entry, or nothing when skip_serializing_if holds
Field(skip, k, v) == IF skip THEN <<>> ELSE <<Entry(k, v)>>

\* Vec::is_empty / Option::is_none
is_empty(v) == Len(v) = 0
is_none(o) == ~IsSome(o)

\* Serialize for FeeHistory: the fields in declaration order, each through
\* its codec, the skipped ones left out
SerializeNoSkip(self) ==
    Field(FALSE, "baseFeePerGas",
          u128_vec_via_ruint_serialize(self.base_fee_per_gas))
    \o Field(FALSE, "gasUsedRatio", vec_f64_serialize(self.gas_used_ratio))
    \o Field(FALSE, "baseFeePerBlobGas",
             u128_vec_via_ruint_serialize(self.base_fee_per_blob_gas))
    \o Field(FALSE, "blobGasUsedRatio",
             vec_f64_serialize(self.blob_gas_used_ratio))
    \o Field(FALSE, "oldestBlock", u64_via_ruint_serialize(self.oldest_block))
    \o Field(FALSE, "reward", u128_vec_vec_opt_via_ruint_serialize(self.reward))
Serialize(self) ==
    Field(is_empty(self.base_fee_per_gas), "baseFeePerGas",
          u128_vec_via_ruint_serialize(self.base_fee_per_gas))
    \o Field(FALSE, "gasUsedRatio", vec_f64_serialize(self.gas_used_ratio))
    \o Field(is_empty(self.base_fee_per_blob_gas), "baseFeePerBlobGas",
             u128_vec_via_ruint_serialize(self.base_fee_per_blob_gas))
    \o Field(is_empty(self.blob_gas_used_ratio), "blobGasUsedRatio",
             vec_f64_serialize(self.blob_gas_used_ratio))
    \o Field(FALSE, "oldestBlock", u64_via_ruint_serialize(self.oldest_block))
    \o Field(is_none(self.reward), "reward",
             u128_vec_vec_opt_via_ruint_serialize(self.reward))

\* the codec of each field: Some(value) or None when the JSON is malformed
DecodeField(k, j) ==
    CASE k = "baseFeePerGas" -> u128_vec_via_ruint_deserialize(j)
      [] k = "gasUsedRatio" -> vec_f64_deserialize(j)
      [] k = "baseFeePerBlobGas" -> u128_vec_via_ruint_deserialize(j)
      [] k = "blobGasUsedRatio" -> vec_f64_deserialize(j)
      [] k = "oldestBlock" -> u64_via_ruint_deserialize(j)
      [] k = "reward" -> u128_vec_vec_opt_via_ruint_deserialize(j)

\* every field from its entry, or Default::default() when its key never
\* appeared
FieldsOrDefault(acc) ==
    Ok([base_fee_per_gas |->
            IF IsSome(acc["baseFeePerGas"])
            THEN Unwrap(acc["baseFeePerGas"]) ELSE <<>>,
        gas_used_ratio |->
            IF IsSome(acc["gasUsedRatio"])
            THEN Unwrap(acc["gasUsedRatio"]) ELSE <<>>,
        base_fee_per_blob_gas |->
            IF IsSome(acc["baseFeePerBlobGas"])
            THEN Unwrap(acc["baseFeePerBlobGas"]) ELSE <<>>,
        blob_gas_used_ratio |->
            IF IsSome(acc["blobGasUsedRatio"])
            THEN Unwrap(acc["blobGasUsedRatio"]) ELSE <<>>,
        oldest_block |->
            IF IsSome(acc["oldestBlock"])
            THEN Unwrap(acc["oldestBlock"]) ELSE 0,
        reward |->
            IF IsSome(acc["reward"]) THEN Unwrap(acc["reward"]) ELSE None])
FinishOldestRequired(acc) ==
    IF ~IsSome(acc["gasUsedRatio"]) THEN Err("missing field gasUsedRatio")
    ELSE IF ~IsSome(acc["oldestBlock"]) THEN Err("missing field oldestBlock")
    ELSE FieldsOrDefault(acc)
\* after the last entry: #[serde(default)] fills a field whose key never
\* appeared; gas_used_ratio has no default and is required
Finish(acc) ==
    IF ~IsSome(acc["gasUsedRatio"]) THEN Err("missing field gasUsedRatio")
    ELSE FieldsOrDefault(acc)

\* visit_map: the entries in input order; an unknown key is ignored, a
\* repeated key and a malformed value end the whole deserialization
RECURSIVE Visit(_, _, _)
Visit(obj, i, acc) ==
    IF i > Len(obj) THEN Finish(acc)
    ELSE IF obj[i].k \notin Keys THEN Visit(obj, i + 1, acc)
    ELSE IF IsSome(acc[obj[i].k]) THEN Err("duplicate field")
    ELSE IF ~IsSome(DecodeField(obj[i].k, obj[i].v)) THEN Err("invalid value")
    ELSE Visit(obj, i + 1,
               [acc EXCEPT ![obj[i].k] = DecodeField(obj[i].k, obj[i].v)])

\* Deserialize for FeeHistory
Deserialize(obj) == Visit(obj, 1, [k \in Keys |-> None])

\* the keys of an object
KeysOf(obj) == {obj[i].k : i \in 1..Len(obj)}
\* the value of a key that occurs in the object
ValueOf(obj, k) == obj[CHOOSE i \in 1..Len(obj) : obj[i].k = k].v

(***************************************************************************)
(* TxGasAndReward                                                          *)
(***************************************************************************)
\* u128's Ord
U128Cmp(x, y) == IF x < y THEN "Less" ELSE IF x > y THEN "Greater" ELSE "Equal"
\* u64's Ord
U64Cmp(x, y) == IF x < y THEN "Less" ELSE IF x > y THEN "Greater" ELSE "Equal"

\* Ord for TxGasAndReward: compare only the reward
cmp_lexicographic(self, other) ==
    IF U128Cmp(self.reward, other.reward) # "Equal"
    THEN U128Cmp(self.reward, other.reward)
    ELSE U64Cmp(self.gas_used, other.gas_used)
cmp(self, other) == U128Cmp(self.reward, other.reward)

\* PartialOrd for TxGasAndReward
partial_cmp(self, other) == Some(cmp(self, other))

\* #[derive(PartialEq, Eq)] on TxGasAndReward: both fields equal
eq_reward_only(self, other) == self.reward = other.reward
eq(self, other) ==
    self.gas_used = other.gas_used /\ self.reward = other.reward

\* a stable sort by cmp: each element goes behind the elements that are not
\* Greater than it
RECURSIVE InsertByCmp(_, _)
InsertByCmp(s, x) ==
    IF Len(s) = 0 THEN <<x>>
    ELSE IF cmp(s[Len(s)], x) = "Greater"
    THEN InsertByCmp(SubSeq(s, 1, Len(s) - 1), x) \o <<s[Len(s)]>>
    ELSE s \o <<x>>

RECURSIVE SortByCmp(_)
SortByCmp(s) ==
    IF Len(s) = 0 THEN <<>>
    ELSE InsertByCmp(SortByCmp(SubSeq(s, 1, Len(s) - 1)), s[Len(s)])

GasValues == {21000, 50000}
TxValues == [gas_used : GasValues, reward : 0..MaxReward]

(***************************************************************************)
(* FeeHistory values                                                       *)
(***************************************************************************)
\* FeeHistory::default()
DefaultFeeHistory ==
    [base_fee_per_gas |-> <<>>, gas_used_ratio |-> <<>>,
     base_fee_per_blob_gas |-> <<>>, blob_gas_used_ratio |-> <<>>,
     oldest_block |-> 0, reward |-> None]

NoRet == [op |-> "none", val |-> None]
NoOut == <<>>
NoOrd == [set |-> FALSE]

\* the remaining fields of a history given to the accessors: all defaulted,
\* or all populated
OtherFields ==
    {[r |-> <<>>, n |-> 0, w |-> None],
     [r |-> <<"0.5">>, n |-> 1, w |-> Some(<<<<1>>>>)]}

\* The accessors are called on every pair of fee sequences, with the
\* remaining fields either defaulted or all populated.
Init ==
    /\ \E g \in SeqsUpTo(0..MaxFee, MaxLen),
          b \in SeqsUpTo(0..MaxFee, MaxLen),
          o \in OtherFields :
          fh = [base_fee_per_gas |-> g, gas_used_ratio |-> o.r,
                base_fee_per_blob_gas |-> b, blob_gas_used_ratio |-> o.r,
                oldest_block |-> o.n, reward |-> o.w]
    /\ ret = NoRet
    /\ pc = "ready"
    /\ wire = <<>>
    /\ out = NoOut
    /\ txs = <<>>
    /\ ord = NoOrd
    /\ sorted = <<>>

Call(op, val) ==
    /\ ret' = [op |-> op, val |-> val]
    /\ UNCHANGED <<fh, pc, wire, out, txs, ord, sorted>>

CallLatestBlockBaseFee == Call("latest_block_base_fee", latest_block_base_fee(fh))
CallNextBlockBaseFee == Call("next_block_base_fee", next_block_base_fee(fh))
CallNextBlockBlobBaseFee ==
    Call("next_block_blob_base_fee", next_block_blob_base_fee(fh))
CallLatestBlockBlobBaseFee ==
    Call("latest_block_blob_base_fee", latest_block_blob_base_fee(fh))

Next ==
    \/ CallLatestBlockBaseFee
    \/ CallNextBlockBaseFee
    \/ CallNextBlockBlobBaseFee
    \/ CallLatestBlockBlobBaseFee

Spec == Init /\ [][Next]_vars

(***************************************************************************)
(* SpecSerde: a FeeHistory is serialized and read back, or a JSON object   *)
(* received from a peer is deserialized                                    *)
(***************************************************************************)
WireFees == {0, 26}
OldestBlocks == {0, 4096}
RewardRows == {<<>>, <<0>>, <<26, 0>>}

\* the rewards of a history of n blocks: absent, or one row per block
RewardsOf(n) == {None} \cup {Some([i \in 1..n |-> row]) : row \in RewardRows}

\* the length invariants of a well-formed history
LengthInvariants(v) ==
    /\ (v.base_fee_per_gas # <<>> /\ v.gas_used_ratio # <<>>)
          => Len(v.base_fee_per_gas) = Len(v.gas_used_ratio) + 1
    /\ (v.base_fee_per_blob_gas # <<>> /\ v.blob_gas_used_ratio # <<>>)
          => Len(v.base_fee_per_blob_gas) = Len(v.blob_gas_used_ratio) + 1
    /\ IsSome(v.reward) => Len(Unwrap(v.reward)) = Len(v.gas_used_ratio)

\* Received JSON: per key, the values a peer may send (json) and the Rust
\* value each denotes (value); the last two of gasUsedRatio are malformed.
H(chars) == JStr(chars)
Received ==
    [baseFeePerGas |->
        <<[json |-> JArr(<<H(<<"0", "x", "3", "4", "2", "7", "7", "0", "c", "0">>),
                           H(<<"0", "x", "2", "d", "a", "2", "8", "2", "a", "8">>)>>),
           value |-> <<875000000, 765625000>>],
          [json |-> JArr(<<>>), value |-> <<>>]>>,
     gasUsedRatio |->
        <<[json |-> JArr(<<JNum("0.5")>>), value |-> <<"0.5">>],
          [json |-> JArr(<<>>), value |-> <<>>],
          [json |-> JArr(<<JNum("0.9920321333333333")>>),
           value |-> <<"0.9920321333333333">>],
          [json |-> JArr(<<JNum("0.0"), JNull>>), value |-> <<>>],
          [json |-> JArr(<<JNum("1e999")>>), value |-> <<>>]>>,
     baseFeePerBlobGas |->
        <<[json |-> JArr(<<H(<<"0", "x", "0">>), H(<<"0", "x", "c", "0">>)>>),
           value |-> <<0, 192>>],
          [json |-> JArr(<<H(<<"0", "x", "0">>)>>), value |-> <<0>>]>>,
     blobGasUsedRatio |->
        <<[json |-> JArr(<<JNum("0.0"), JNum("0")>>),
           value |-> <<"0.0", "0.0">>],
          [json |-> JArr(<<>>), value |-> <<>>],
          [json |-> JArr(<<JNum("0.20597603333333334")>>),
           value |-> <<"0.20597603333333334">>]>>,
     oldestBlock |->
        <<[json |-> H(<<"0", "x", "1">>), value |-> 1],
          [json |-> H(<<"0", "x", "5", "9", "f", "9", "4", "f">>),
           value |-> 5896527]>>,
     reward |->
        <<[json |-> JArr(<<JArr(<<H(<<"0", "x", "5", "9", "6", "8", "2", "f", "0", "0">>)>>),
                           JArr(<<H(<<"0", "x", "0">>)>>)>>),
           value |-> Some(<<<<1500000000>>, <<0>>>>)],
          [json |-> JArr(<<>>), value |-> Some(<<>>)]>>]

\* the object that sends, for each key, its c[k]-th value, or leaves the key
\* out when c[k] = 0
ObjectOf(c) ==
    LET F(k) == Field(c[k] = 0, k, Received[k][c[k]].json)
    IN  F("baseFeePerGas") \o F("gasUsedRatio") \o F("baseFeePerBlobGas")
        \o F("blobGasUsedRatio") \o F("oldestBlock") \o F("reward")

Choices == {c \in [Keys -> 0..5] : \A k \in Keys : c[k] <= Len(Received[k])}

\* every choice in declaration order and in reverse order, and every
\* non-empty one with its first entry repeated at the end
WireInputs ==
    {ObjectOf(c) : c \in Choices}
    \cup {Rev(ObjectOf(c)) : c \in Choices}
    \cup {ObjectOf(c) \o <<ObjectOf(c)[1]>> :
             c \in {d \in Choices : \E k \in Keys : d[k] # 0}}

\* the Rust value a well-formed received JSON value denotes
Denoted(k, j) ==
    Received[k][CHOOSE i \in 1..Len(Received[k]) : Received[k][i].json = j].value
\* the malformed values are gasUsedRatio's fourth and fifth
WellFormed(k, j) ==
    ~(k = "gasUsedRatio" /\ j \in {Received[k][4].json, Received[k][5].json})

InitSerde ==
    /\ \/ /\ pc = "start"
          \* n blocks, the fee sequences empty or one longer than n, the
          \* blob ratios empty or of length n
          /\ \E n \in 0..MaxBlocks :
                \E g \in {<<>>} \cup [1..(n + 1) -> WireFees],
                   r \in [1..n -> F64],
                   b \in {<<>>} \cup [1..(n + 1) -> WireFees],
                   br \in {<<>>} \cup [1..n -> F64],
                   o \in OldestBlocks,
                   w \in RewardsOf(n) :
                   fh = [base_fee_per_gas |-> g, gas_used_ratio |-> r,
                         base_fee_per_blob_gas |-> b,
                         blob_gas_used_ratio |-> br,
                         oldest_block |-> o, reward |-> w]
          /\ wire = <<>>
       \/ /\ pc = "received"
          /\ fh = DefaultFeeHistory
          /\ wire \in WireInputs
    /\ ret = NoRet
    /\ out = NoOut
    /\ txs = <<>>
    /\ ord = NoOrd
    /\ sorted = <<>>

\* serde_json::to_value(&fh)
SerializeValue ==
    /\ pc = "start"
    /\ wire' = Serialize(fh)
    /\ pc' = "serialized"
    /\ UNCHANGED <<fh, ret, out, txs, ord, sorted>>

\* serde_json::from_value::<FeeHistory>(wire)
DeserializeWire ==
    /\ pc \in {"serialized", "received"}
    /\ out' = Deserialize(wire)
    /\ pc' = IF pc = "serialized" THEN "round_tripped" ELSE "decoded"
    /\ UNCHANGED <<fh, ret, wire, txs, ord, sorted>>

NextSerde ==
    \/ SerializeValue
    \/ DeserializeWire

SpecSerde == InitSerde /\ [][NextSerde]_vars

(***************************************************************************)
(* SpecOrd: TxGasAndReward values are compared and sorted                  *)
(***************************************************************************)
InitOrd ==
    /\ txs \in SeqsUpTo(TxValues, MaxTxs)
    /\ pc = "ready"
    /\ ord = NoOrd
    /\ sorted = <<>>
    /\ fh = DefaultFeeHistory
    /\ ret = NoRet
    /\ wire = <<>>
    /\ out = NoOut

\* three of the values are compared pairwise
Compare ==
    /\ pc = "ready"
    /\ \E i, j, k \in 1..Len(txs) :
          ord' = [set |-> TRUE, a |-> txs[i], b |-> txs[j], c |-> txs[k],
                  ab |-> cmp(txs[i], txs[j]),
                  ba |-> cmp(txs[j], txs[i]),
                  bc |-> cmp(txs[j], txs[k]),
                  ac |-> cmp(txs[i], txs[k]),
                  pab |-> partial_cmp(txs[i], txs[j]),
                  eqab |-> eq(txs[i], txs[j])]
    /\ pc' = "compared"
    /\ UNCHANGED <<fh, ret, wire, out, txs, sorted>>

\* txs.sort()
Sort ==
    /\ pc = "ready"
    /\ sorted' = SortByCmp(txs)
    /\ pc' = "sorted"
    /\ UNCHANGED <<fh, ret, wire, out, txs, ord>>

NextOrd ==
    \/ Compare
    \/ Sort

SpecOrd == InitOrd /\ [][NextOrd]_vars

(***************************************************************************)
(* Properties of the accessors (Spec)                                      *)
(***************************************************************************)
\* C1: latest_block_base_fee() returns Some of the second-to-last element
\* of base_fee_per_gas, whatever its value, when there are at least two
\* elements, and None exactly when there are fewer than two; no other field
\* enters the result.
C1_LatestBlockBaseFee ==
    ret.op = "latest_block_base_fee" =>
        LET s == fh.base_fee_per_gas
        IN  /\ Len(s) >= 2 => ret.val = Some(s[Len(s) - 1])
            /\ ret.val = None <=> Len(s) \in {0, 1}

\* a zero second-to-last element, before a non-zero last one, is returned
C1_Witness ==
    /\ ret.op = "latest_block_base_fee"
    /\ Len(fh.base_fee_per_gas) = 3
    /\ fh.base_fee_per_gas[2] = 0
    /\ fh.base_fee_per_gas[3] = 2
    /\ fh.reward # None
    /\ ret.val = Some(0)

\* C2: next_block_base_fee() returns Some of the last element of
\* base_fee_per_gas whenever the sequence is non-empty, a zero and a single
\* element included, and None exactly when it is empty.
C2_NextBlockBaseFee ==
    ret.op = "next_block_base_fee" =>
        LET s == fh.base_fee_per_gas
        IN  /\ Len(s) >= 1 => ret.val = Some(s[Len(s)])
            /\ ret.val = None <=> Len(s) = 0

\* a single zero element is returned
C2_Witness ==
    /\ ret.op = "next_block_base_fee"
    /\ fh.base_fee_per_gas = <<0>>
    /\ ret.val = Some(0)

\* C3: next_block_blob_base_fee() returns Some of the last element of
\* base_fee_per_blob_gas when that element exists and is not zero, and None
\* when the sequence is empty or its last element is zero: never Some(0).
C3_NextBlockBlobBaseFee ==
    ret.op = "next_block_blob_base_fee" =>
        LET s == fh.base_fee_per_blob_gas
        IN  /\ (Len(s) >= 1 /\ s[Len(s)] # 0) => ret.val = Some(s[Len(s)])
            /\ (Len(s) = 0 \/ s[Len(s)] = 0) => ret.val = None
            /\ ret.val # Some(0)

\* a zero last element after a non-zero one gives None
C3_Witness ==
    /\ ret.op = "next_block_blob_base_fee"
    /\ fh.base_fee_per_blob_gas = <<1, 0>>
    /\ fh.base_fee_per_gas = <<1, 2>>
    /\ ret.val = None

\* C4: latest_block_blob_base_fee() returns Some of the second-to-last
\* element of base_fee_per_blob_gas when there are at least two elements
\* and that element is not zero, and None when there are fewer than two or
\* that element is zero, even before a non-zero last element.
C4_LatestBlockBlobBaseFee ==
    ret.op = "latest_block_blob_base_fee" =>
        LET s == fh.base_fee_per_blob_gas
        IN  /\ (Len(s) >= 2 /\ s[Len(s) - 1] # 0)
                  => ret.val = Some(s[Len(s) - 1])
            /\ (Len(s) < 2 \/ s[Len(s) - 1] = 0) => ret.val = None

\* a zero second-to-last element before a non-zero last one gives None
C4_Witness ==
    /\ ret.op = "latest_block_blob_base_fee"
    /\ fh.base_fee_per_blob_gas = <<2, 0, 1>>
    /\ ret.val = None

(***************************************************************************)
(* Properties of the wire format (SpecSerde)                               *)
(***************************************************************************)
FiniteRatios(v) ==
    /\ \A i \in 1..Len(v.gas_used_ratio) : IsFinite(v.gas_used_ratio[i])
    /\ \A i \in 1..Len(v.blob_gas_used_ratio) :
          IsFinite(v.blob_gas_used_ratio[i])

\* C5, on the histories whose ratios are finite floats: every history
\* that respects the length invariants is read back equal to itself, with
\* the omittable sequences empty or not and the reward None, Some of
\* nothing or Some of rows.
C5_RoundTrip ==
    (pc = "round_tripped" /\ LengthInvariants(fh) /\ FiniteRatios(fh))
        => (IsOk(out) /\ FeeHistoryEq(out[2], fh))

\* C6: baseFeePerGas, baseFeePerBlobGas and blobGasUsedRatio are written
\* exactly when their sequence is non-empty, reward exactly when it is not
\* None and never as null, gasUsedRatio and oldestBlock always, an empty
\* gasUsedRatio as [].
C6_OmissionLaw ==
    pc = "serialized" =>
        /\ "baseFeePerGas" \in KeysOf(wire) <=> fh.base_fee_per_gas # <<>>
        /\ "baseFeePerBlobGas" \in KeysOf(wire)
              <=> fh.base_fee_per_blob_gas # <<>>
        /\ "blobGasUsedRatio" \in KeysOf(wire)
              <=> fh.blob_gas_used_ratio # <<>>
        /\ "reward" \in KeysOf(wire) <=> fh.reward # None
        /\ "reward" \in KeysOf(wire) => ValueOf(wire, "reward") # JNull
        /\ "gasUsedRatio" \in KeysOf(wire)
        /\ "oldestBlock" \in KeysOf(wire)
        /\ fh.gas_used_ratio = <<>>
              => ValueOf(wire, "gasUsedRatio") = JArr(<<>>)
        /\ Len(wire) = Cardinality(KeysOf(wire))

\* the default-shaped history is written as gasUsedRatio and oldestBlock only
C6_Witness ==
    /\ pc = "serialized"
    /\ fh.base_fee_per_gas = <<>>
    /\ fh.gas_used_ratio = <<>>
    /\ fh.reward = None
    /\ wire = <<Entry("gasUsedRatio", JArr(<<>>)),
                Entry("oldestBlock", JStr(<<"0", "x", "0">>))>>

\* the Rust field a wire key names
FieldOf(v, k) ==
    CASE k = "baseFeePerGas" -> v.base_fee_per_gas
      [] k = "gasUsedRatio" -> v.gas_used_ratio
      [] k = "baseFeePerBlobGas" -> v.base_fee_per_blob_gas
      [] k = "blobGasUsedRatio" -> v.blob_gas_used_ratio
      [] k = "oldestBlock" -> v.oldest_block
      [] k = "reward" -> v.reward

DefaultOf(k) ==
    CASE k = "oldestBlock" -> 0
      [] k = "reward" -> None
      [] OTHER -> <<>>

\* each key at most once and every value well-formed
CleanInput(obj) ==
    /\ Len(obj) = Cardinality(KeysOf(obj))
    /\ \A i \in 1..Len(obj) : WellFormed(obj[i].k, obj[i].v)

\* C7: an input with gasUsedRatio and oldestBlock, lacking any of
\* baseFeePerGas, baseFeePerBlobGas, blobGasUsedRatio and reward, is
\* accepted; each missing field is its default and each present field is
\* exactly the value given.
C7_MissingOmittableKeys ==
    (/\ pc = "decoded"
     /\ CleanInput(wire)
     /\ {"gasUsedRatio", "oldestBlock"} \subseteq KeysOf(wire))
        => /\ IsOk(out)
           /\ \A k \in Keys :
                 FieldOf(out[2], k) = IF k \in KeysOf(wire)
                                      THEN Denoted(k, ValueOf(wire, k))
                                      ELSE DefaultOf(k)

\* C9: an input without gasUsedRatio is an error and nothing else; of the
\* keys only gasUsedRatio is required, so an input of gasUsedRatio alone
\* gives empty fee sequences and blob ratios, oldest_block 0 and no reward.
C9_OnlyGasUsedRatioRequired ==
    pc = "decoded" =>
        /\ "gasUsedRatio" \notin KeysOf(wire) => IsErr(out)
        /\ CleanInput(wire) => (IsOk(out) <=> "gasUsedRatio" \in KeysOf(wire))
        /\ (CleanInput(wire) /\ KeysOf(wire) = {"gasUsedRatio"})
              => /\ IsOk(out)
                 /\ out[2].base_fee_per_gas = <<>>
                 /\ out[2].base_fee_per_blob_gas = <<>>
                 /\ out[2].blob_gas_used_ratio = <<>>
                 /\ out[2].oldest_block = 0
                 /\ out[2].reward = None

\* gasUsedRatio alone is accepted, with oldest_block 0
C9_Witness ==
    /\ pc = "decoded"
    /\ wire = <<Entry("gasUsedRatio", JArr(<<JNum("0.5")>>))>>
    /\ IsOk(out)
    /\ out[2].gas_used_ratio = <<"0.5">>
    /\ out[2].oldest_block = 0
    /\ out[2].reward = None

(***************************************************************************)
(* Properties of TxGasAndReward (SpecOrd)                                  *)
(***************************************************************************)
RewardOrder(x, y) ==
    IF x.reward < y.reward THEN "Less"
    ELSE IF x.reward = y.reward THEN "Equal" ELSE "Greater"

Le(o) == o \in {"Less", "Equal"}

\* s and t hold the same values the same number of times
SameBag(s, t) ==
    /\ Len(s) = Len(t)
    /\ \A x \in TxValues :
          Cardinality({i \in 1..Len(s) : s[i] = x})
              = Cardinality({i \in 1..Len(t) : t[i] = x})

\* C8: cmp is the ascending comparison of the rewards and never looks at
\* gas_used, partial_cmp is Some of it, the relation is total, transitive
\* and antisymmetric on reward, and a sort by it leaves the rewards
\* non-decreasing.
C8_OrderByRewardOnly ==
    /\ ord.set =>
          /\ ord.ab = RewardOrder(ord.a, ord.b)
          /\ ord.pab = Some(ord.ab)
          /\ Le(ord.ab) \/ Le(ord.ba)
          /\ (Le(ord.ab) /\ Le(ord.bc)) => Le(ord.ac)
          /\ (Le(ord.ab) /\ Le(ord.ba)) => ord.a.reward = ord.b.reward
    /\ pc = "sorted" =>
          /\ \A i \in 1..(Len(sorted) - 1) :
                sorted[i].reward <= sorted[i + 1].reward
          /\ SameBag(sorted, txs)

\* equal rewards with different gas_used compare Equal
C8_Witness ==
    /\ ord.set
    /\ ord.a.reward = ord.b.reward
    /\ ord.a.gas_used # ord.b.gas_used
    /\ ord.ab = "Equal"
    /\ ord.pab = Some("Equal")

\* C10: a == b implies cmp Equal and not the other way round: cmp is Equal
\* exactly when the rewards are equal, == holds exactly when the rewards
\* and the gas_used are both equal.
C10_EqImpliesCmpEqual ==
    ord.set =>
        /\ ord.eqab => ord.ab = "Equal"
        /\ ord.ab = "Equal" <=> ord.a.reward = ord.b.reward
        /\ ord.eqab <=> (/\ ord.a.reward = ord.b.reward
                         /\ ord.a.gas_used = ord.b.gas_used)

\* cmp Equal between values that are not ==
C10_Witness ==
    /\ ord.set
    /\ ord.ab = "Equal"
    /\ ~ord.eqab
    /\ ord.a.gas_used = 21000
    /\ ord.b.gas_used = 50000

====
